---- MODULE Spec2Model ----
(***************************************************************************)
(* Model of rspotify's src/http/mod.rs: the header builders of `mod        *)
(* headers`, the BaseHTTPClient trait (the backend) and the request         *)
(* wrappers of `impl Spotify` (endpoint_url, auth_headers, the five basic   *)
(* verbs and the four endpoint verbs).                                      *)
(*                                                                          *)
(* A Rust String is a sequence of one-character strings, Option<T> is a     *)
(* sequence of length 0 (None) or 1 (Some), a HashMap is a function, and a  *)
(* ClientResult<T> is a record [ok, val, err].                              *)
(***************************************************************************)
EXTENDS Integers, Sequences, FiniteSets, TLC

VARIABLES
    prefix,     \* Spotify.prefix, the configured base URL
    token,      \* Spotify.token: Option<Token>
    http,       \* Spotify.http, the backend selected at build time
    task,       \* per caller: the request it is running and where it is
    calls,      \* per caller: the backend calls its current request made
    trail,      \* successive results of endpoint_url, the input first
    creds,      \* the arguments given to basic_auth
    basicOut,   \* Option<(String, String)>: what basic_auth returned
    bearerOut   \* Option<(String, String)>: what bearer_auth returned

vars == <<prefix, token, http, task, calls, trail, creds, basicOut, bearerOut>>

----------------------------------------------------------------------------
(* Bounds of the model. *)

\* Callers that share one client.
NumTasks == 2
\* URLs and prefixes given to endpoint_url are made of at most MaxSegs segments.
MaxSegs == 3
\* Longest user name and longest password given to basic_auth.
MaxCredLen == 2
\* Longest access token given to bearer_auth.
MaxTokLen == 2
\* How many times in a row endpoint_url is applied to its own result.
MaxApplications == 2

Tasks == 1..NumTasks

----------------------------------------------------------------------------
(* Strings. *)

\* All strings of at most n characters over the alphabet A.
StringsOver(A, n) == UNION {[1..k -> A] : k \in 0..n}

RECURSIVE Concat(_)
\* The concatenation of a sequence of strings.
Concat(ss) == IF ss = <<>> THEN <<>> ELSE Head(ss) \o Concat(Tail(ss))

\* str::starts_with.
starts_with(s, pat) ==
    /\ Len(s) >= Len(pat)
    /\ \A i \in 1..Len(pat) : s[i] = pat[i]

\* The literal "http" of endpoint_url.
HttpLit == <<"h", "t", "t", "p">>

\* The literal "authorization".
AuthorizationLit == <<"a", "u", "t", "h", "o", "r", "i", "z", "a", "t", "i", "o", "n">>

\* The literal "Bearer " of bearer_auth's format string.
BearerLit == <<"B", "e", "a", "r", "e", "r", " ">>

\* The literal "Basic " of basic_auth's format string.
BasicLit == <<"B", "a", "s", "i", "c", " ">>

----------------------------------------------------------------------------
(* ClientResult, Option, Headers. *)

Ok(v) == [ok |-> TRUE, val |-> v, err |-> "none"]
Err(e) == [ok |-> FALSE, val |-> <<>>, err |-> e]

None == <<>>
Some(x) == <<x>>

\* Headers::new() and HashMap::insert.
NewHeaders == <<>>
insert(h, k, v) == [x \in (DOMAIN h) \cup {k} |-> IF x = k THEN v ELSE h[x]]

----------------------------------------------------------------------------
(* mod headers. *)

\* A Token, of which this module reads only access_token.
Token(access) == [access_token |-> access]

\* bearer_auth with the scheme misspelt in lower case.
bearer_auth_lowercase(tok) == <<AuthorizationLit, <<"b", "e", "a", "r", "e", "r", " ">> \o tok.access_token>>

\* headers::bearer_auth: ("authorization", format!("Bearer {}", tok.access_token)).
bearer_auth(tok) == <<AuthorizationLit, BearerLit \o tok.access_token>>

\* The UTF-8 byte of each character the credentials are drawn from.
ByteOf == [c \in {"a", ":", "~", "0"} |->
             CASE c = "a" -> 97 [] c = ":" -> 58 [] c = "~" -> 126 [] c = "0" -> 48]

\* String::as_bytes, the AsRef<[u8]> view base64::encode reads.
as_bytes(s) == [i \in 1..Len(s) |-> ByteOf[s[i]]]

\* The standard base64 alphabet (RFC 4648), indexed from 1.
B64Alphabet ==
    <<"A", "B", "C", "D", "E", "F", "G", "H", "I", "J", "K", "L", "M",
      "N", "O", "P", "Q", "R", "S", "T", "U", "V", "W", "X", "Y", "Z",
      "a", "b", "c", "d", "e", "f", "g", "h", "i", "j", "k", "l", "m",
      "n", "o", "p", "q", "r", "s", "t", "u", "v", "w", "x", "y", "z",
      "0", "1", "2", "3", "4", "5", "6", "7", "8", "9", "+", "/">>

\* The character of a 6-bit value.
B64Char(v) == B64Alphabet[v + 1]

RECURSIVE base64_encode_bytes(_)
\* base64::encode on bytes: three bytes give four characters, and a last group
\* of one or two bytes is padded with "=" to four characters.
base64_encode_bytes(b) ==
    IF Len(b) = 0 THEN <<>>
    ELSE IF Len(b) = 1 THEN
        <<B64Char(b[1] \div 4), B64Char((b[1] % 4) * 16), "=", "=">>
    ELSE IF Len(b) = 2 THEN
        <<B64Char(b[1] \div 4),
          B64Char((b[1] % 4) * 16 + b[2] \div 16),
          B64Char((b[2] % 16) * 4), "=">>
    ELSE
        <<B64Char(b[1] \div 4),
          B64Char((b[1] % 4) * 16 + b[2] \div 16),
          B64Char((b[2] % 16) * 4 + b[3] \div 64),
          B64Char(b[3] % 64)>>
        \o base64_encode_bytes(SubSeq(b, 4, Len(b)))

\* base64::encode(value) for a String value.
base64_encode(s) == base64_encode_bytes(as_bytes(s))

\* basic_auth with format!("{}{}", ..): the separating colon forgotten.
basic_auth_no_colon(user, password) == <<AuthorizationLit, BasicLit \o base64_encode(user \o password)>>

\* headers::basic_auth: ("authorization", "Basic " + base64("user:password")).
basic_auth(user, password) == <<AuthorizationLit, BasicLit \o base64_encode(user \o <<":">> \o password)>>

----------------------------------------------------------------------------
(* impl Spotify: URL resolution and authentication headers. *)

\* endpoint_url that prefixes every url, absolute or not.
endpoint_url_always_prefix(url) == prefix \o url

\* endpoint_url that joins the prefix and the url with a "/".
endpoint_url_separator(url) ==
    IF ~starts_with(url, HttpLit) THEN prefix \o <<"/">> \o url ELSE url

\* Spotify::endpoint_url.
endpoint_url(url) ==
    IF ~starts_with(url, HttpLit) THEN prefix \o url ELSE url

\* The token store's read: the current token, or the
\* authentication-unavailable error when none is set.
get_token == IF token = None THEN Err("AuthenticationUnavailable") ELSE Ok(token[1])

\* auth_headers that goes on without a token, with no authorization header.
auth_headers_ignore_missing ==
    IF get_token.ok
    THEN Ok(insert(NewHeaders, bearer_auth(get_token.val)[1], bearer_auth(get_token.val)[2]))
    ELSE Ok(NewHeaders)

\* Spotify::auth_headers: `?` returns get_token's error; otherwise the
\* single-entry map holding bearer_auth's pair.
auth_headers ==
    IF get_token.ok
    THEN Ok(insert(NewHeaders, bearer_auth(get_token.val)[1], bearer_auth(get_token.val)[2]))
    ELSE Err(get_token.err)

----------------------------------------------------------------------------
(* The verbs. *)

BasicVerbs == {"get", "post", "post_form", "put", "delete"}
EndpointVerbs == {"endpoint_get", "endpoint_post", "endpoint_put", "endpoint_delete"}
Verbs == BasicVerbs \cup EndpointVerbs

\* The endpoint verbs with endpoint_put calling self.post.
basic_verb_of_put_posts(verb) ==
    CASE verb = "endpoint_get" -> "get"
      [] verb = "endpoint_post" -> "post"
      [] verb = "endpoint_put" -> "post"
      [] verb = "endpoint_delete" -> "delete"
      [] OTHER -> verb

\* The basic verb an entry point runs: an endpoint verb calls self.get,
\* self.post, self.put or self.delete, a basic verb is itself.
basic_verb_of(verb) ==
    CASE verb = "endpoint_get" -> "get"
      [] verb = "endpoint_post" -> "post"
      [] verb = "endpoint_put" -> "put"
      [] verb = "endpoint_delete" -> "delete"
      [] OTHER -> verb

\* The BaseHTTPClient method each basic verb calls on self.http.
http_verb_of(basic) ==
    CASE basic = "get" -> "http.get"
      [] basic = "post" -> "http.post"
      [] basic = "post_form" -> "http.post_form"
      [] basic = "put" -> "http.put"
      [] basic = "delete" -> "http.delete"

\* A basic verb that hands the backend the url as given, unresolved.
backend_call_unresolved(basic, url, headers, payload) ==
    [verb |-> http_verb_of(basic), url |-> url, headers |-> headers,
     payload |-> payload, backend |-> http, response |-> None]

\* A basic verb that sends no body: the payload replaced by null.
backend_call_null_payload(basic, url, headers, payload) ==
    [verb |-> http_verb_of(basic), url |-> endpoint_url(url), headers |-> headers,
     payload |-> "null", backend |-> http, response |-> None]

\* The call a basic verb makes: self.http.<verb>(&endpoint_url(url), headers,
\* payload), not answered yet.
backend_call(basic, url, headers, payload) ==
    [verb |-> http_verb_of(basic), url |-> endpoint_url(url), headers |-> headers,
     payload |-> payload, backend |-> http, response |-> None]

----------------------------------------------------------------------------
(* The values requests are made of. *)

\* The configured prefixes: an absolute base URL, and a base path.
Prefixes == {<<"h", "t", "t", "p", ":", "/", "/", "a", "/">>, <<"/", "v", "1", "/">>}

\* The urls callers pass: a relative route and an absolute URL.
Urls == {<<"m", "e">>, <<"h", "t", "t", "p", ":", "/", "/", "o">>}

\* The token store: empty, or one of two tokens.
Tokens == {None, Some(Token(<<"t", "1">>)), Some(Token(<<"t", "2">>))}

\* The backends `pub use ... as HTTPClient` selects between.
Backends == {"ReqwestClient", "UreqClient"}

\* headers: Option<&Headers> of a basic verb. The endpoint verbs take none.
CallerHeaders(verb) ==
    IF verb \in EndpointVerbs THEN {None}
    ELSE {None, Some(insert(NewHeaders, AuthorizationLit, BasicLit \o <<"Y", "T", "p", "h">>))}

\* payload: &Query for get, &Form for post_form, &Value for the others.
Payloads(basic) ==
    CASE basic = "get" -> {"", "limit=1"}
      [] basic = "post_form" -> {"", "grant_type=client_credentials"}
      [] OTHER -> {"{}", "null"}

\* What a backend may answer: a body, or a client error.
Responses == {Ok(<<"{", "}">>), Err("Transport"), Err("HttpStatus")}

\* A caller that runs no request.
IdleTask ==
    [pc |-> "idle", verb |-> "none", url |-> <<>>, headers |-> None,
     payload |-> "", result |-> None]

----------------------------------------------------------------------------
(* Requests through one shared client. *)

Init ==
    /\ prefix \in Prefixes
    /\ token \in Tokens
    /\ http \in Backends
    /\ task = [t \in Tasks |-> IdleTask]
    /\ calls = [t \in Tasks |-> <<>>]
    /\ trail = <<>>
    /\ creds = [user |-> <<>>, password |-> <<>>]
    /\ basicOut = None
    /\ bearerOut = None

\* A caller calls one of the nine verbs.
Invoke(t, verb, url, headers, payload) ==
    /\ task[t].pc = "idle"
    /\ task' = [task EXCEPT ![t] =
                  [pc |-> IF verb \in EndpointVerbs THEN "endpoint" ELSE "basic",
                   verb |-> verb, url |-> url, headers |-> headers,
                   payload |-> payload, result |-> None]]
    /\ UNCHANGED <<prefix, token, http, calls, trail, creds, basicOut, bearerOut>>

Call(t) ==
    \E verb \in Verbs, url \in Urls :
        \E headers \in CallerHeaders(verb), payload \in Payloads(basic_verb_of(verb)) :
            Invoke(t, verb, url, headers, payload)

\* An endpoint verb whose auth_headers call takes the token out of the store.
EndpointVerbTakesToken(t) ==
    /\ task[t].pc = "endpoint"
    /\ task' = [task EXCEPT ![t] =
                  IF auth_headers.ok
                  THEN [@ EXCEPT !.pc = "basic", !.headers = Some(auth_headers.val)]
                  ELSE [@ EXCEPT !.pc = "done", !.result = Some(Err(auth_headers.err))]]
    /\ token' = None
    /\ UNCHANGED <<prefix, http, calls, trail, creds, basicOut, bearerOut>>

\* endpoint_get, endpoint_post, endpoint_put, endpoint_delete, up to the call
\* of the basic verb: `let headers = self.auth_headers()?;`.
EndpointVerb(t) ==
    /\ task[t].pc = "endpoint"
    /\ task' = [task EXCEPT ![t] =
                  IF auth_headers.ok
                  THEN [@ EXCEPT !.pc = "basic", !.headers = Some(auth_headers.val)]
                  ELSE [@ EXCEPT !.pc = "done", !.result = Some(Err(auth_headers.err))]]
    /\ UNCHANGED <<prefix, token, http, calls, trail, creds, basicOut, bearerOut>>

\* get, post, post_form, put, delete: the url is resolved and the backend
\* called; the caller then awaits the backend.
BasicVerb(t) ==
    /\ task[t].pc = "basic"
    /\ calls' = [calls EXCEPT ![t] =
                   Append(@, backend_call(basic_verb_of(task[t].verb), task[t].url,
                                          task[t].headers, task[t].payload))]
    /\ task' = [task EXCEPT ![t].pc = "await"]
    /\ UNCHANGED <<prefix, token, http, trail, creds, basicOut, bearerOut>>

\* The backend answers the call a caller awaits.
BackendRespond(t) ==
    /\ task[t].pc = "await"
    /\ \E r \in Responses :
          calls' = [calls EXCEPT ![t][Len(calls[t])].response = Some(r)]
    /\ task' = [task EXCEPT ![t].pc = "answered"]
    /\ UNCHANGED <<prefix, token, http, trail, creds, basicOut, bearerOut>>

\* A verb that calls the backend once more when its first call failed.
ReturnRetries(t) ==
    /\ task[t].pc = "answered"
    /\ IF ~calls[t][Len(calls[t])].response[1].ok /\ Len(calls[t]) = 1
       THEN /\ calls' = [calls EXCEPT ![t] = Append(@, [@[1] EXCEPT !.response = None])]
            /\ task' = [task EXCEPT ![t].pc = "await"]
       ELSE /\ task' = [task EXCEPT ![t].pc = "done",
                                    ![t].result = calls[t][Len(calls[t])].response]
            /\ UNCHANGED calls
    /\ UNCHANGED <<prefix, token, http, trail, creds, basicOut, bearerOut>>

\* `self.http.<verb>(..).await` is the verb's value: the backend's result is
\* returned as it is, through the endpoint verb too.
Return(t) ==
    /\ task[t].pc = "answered"
    /\ task' = [task EXCEPT ![t].pc = "done",
                            ![t].result = calls[t][Len(calls[t])].response]
    /\ UNCHANGED <<prefix, token, http, calls, trail, creds, basicOut, bearerOut>>

\* The caller takes the result; it may call again.
Finish(t) ==
    /\ task[t].pc = "done"
    /\ task' = [task EXCEPT ![t] = IdleTask]
    /\ calls' = [calls EXCEPT ![t] = <<>>]
    /\ UNCHANGED <<prefix, token, http, trail, creds, basicOut, bearerOut>>

TaskStep(t) ==
    \/ Call(t)
    \/ EndpointVerb(t)
    \/ BasicVerb(t)
    \/ BackendRespond(t)
    \/ Return(t)
    \/ Finish(t)

\* One caller, one request after the other.
Next == TaskStep(1)

Spec == Init /\ [][Next]_vars

\* Every caller, their requests interleaved.
NextConc == \E t \in Tasks : TaskStep(t)

SpecConc == Init /\ [][NextConc]_vars

----------------------------------------------------------------------------
(* endpoint_url alone, applied to a url and then to its own result. *)

\* The pieces urls and prefixes are made of: "ht" and "tp" make "http".
Segments == {<<"h", "t">>, <<"t", "p">>, <<"m", "e">>}

\* Every string of at most MaxSegs segments, the empty string included.
UrlStrings == {Concat(ss) : ss \in StringsOver(Segments, MaxSegs)}

InitUrl ==
    /\ prefix \in UrlStrings
    /\ trail \in {<<u>> : u \in UrlStrings}
    /\ token = None
    /\ http = "ReqwestClient"
    /\ task = [t \in Tasks |-> IdleTask]
    /\ calls = [t \in Tasks |-> <<>>]
    /\ creds = [user |-> <<>>, password |-> <<>>]
    /\ basicOut = None
    /\ bearerOut = None

\* endpoint_url is applied to the last result.
Resolve ==
    /\ Len(trail) <= MaxApplications
    /\ trail' = Append(trail, endpoint_url(trail[Len(trail)]))
    /\ UNCHANGED <<prefix, token, http, task, calls, creds, basicOut, bearerOut>>

NextUrl == Resolve

SpecUrl == InitUrl /\ [][NextUrl]_vars

----------------------------------------------------------------------------
(* The header builders alone. *)

\* The characters user names and passwords are made of.
CredChars == DOMAIN ByteOf

\* The characters access tokens are made of.
TokenChars == {"x", " "}

InitHeaders ==
    /\ creds \in [user : StringsOver(CredChars, MaxCredLen),
                  password : StringsOver(CredChars, MaxCredLen)]
    /\ token \in {Some(Token(a)) : a \in StringsOver(TokenChars, MaxTokLen)}
    /\ basicOut = None
    /\ bearerOut = None
    /\ prefix = <<>>
    /\ http = "ReqwestClient"
    /\ task = [t \in Tasks |-> IdleTask]
    /\ calls = [t \in Tasks |-> <<>>]
    /\ trail = <<>>

\* basic_auth(user, password) is called.
ApplyBasicAuth ==
    /\ basicOut = None
    /\ basicOut' = Some(basic_auth(creds.user, creds.password))
    /\ UNCHANGED <<prefix, token, http, task, calls, trail, creds, bearerOut>>

\* bearer_auth(&token) is called.
ApplyBearerAuth ==
    /\ bearerOut = None
    /\ bearerOut' = Some(bearer_auth(token[1]))
    /\ UNCHANGED <<prefix, token, http, task, calls, trail, creds, basicOut>>

NextHeaders == ApplyBasicAuth \/ ApplyBearerAuth

SpecHeaders == InitHeaders /\ [][NextHeaders]_vars

----------------------------------------------------------------------------
(* Properties. *)

\* url starts with the scheme prefix endpoint_url recognizes.
HasHttpPrefix(url) == Len(url) >= 4 /\ SubSeq(url, 1, 4) = <<"h", "t", "t", "p">>

\* The backend method that belongs to each of the nine verbs.
ExpectedBackendVerb(verb) ==
    CASE verb \in {"get", "endpoint_get"} -> "http.get"
      [] verb \in {"post", "endpoint_post"} -> "http.post"
      [] verb = "post_form" -> "http.post_form"
      [] verb \in {"put", "endpoint_put"} -> "http.put"
      [] verb \in {"delete", "endpoint_delete"} -> "http.delete"

\* The request of caller t has called the backend, or has returned.
Issued(t) == task[t].pc \in {"await", "answered", "done"}

\* C1: every url handed to the backend, by a basic or an endpoint verb, is
\* the input url itself when that url starts with the recognized scheme
\* prefix, and otherwise the configured prefix followed by the input url,
\* once.
C1_OutgoingUrlResolvedOnce ==
    \A t \in Tasks : \A i \in 1..Len(calls[t]) :
        IF HasHttpPrefix(task[t].url)
        THEN calls[t][i].url = task[t].url
        ELSE calls[t][i].url = prefix \o task[t].url

\* An endpoint verb has handed the backend a relative route.
C1_Witness ==
    \E t \in Tasks :
        /\ task[t].verb \in EndpointVerbs
        /\ ~HasHttpPrefix(task[t].url)
        /\ Len(calls[t]) = 1
        /\ calls[t][1].url = prefix \o <<"m", "e">>

\* C2: an endpoint verb called while no token is set returns the
\* authentication-unavailable error and calls the backend not at all.
C2_NoTokenNoBackendCall ==
    \A t \in Tasks :
        (task[t].verb \in EndpointVerbs /\ token = None /\ task[t].pc # "endpoint")
            => /\ task[t].pc = "done"
               /\ task[t].result = Some(Err("AuthenticationUnavailable"))
               /\ calls[t] = <<>>

\* An endpoint verb has returned with no token set.
C2_Witness ==
    \E t \in Tasks :
        task[t].verb \in EndpointVerbs /\ token = None /\ task[t].pc = "done"

\* C3: an endpoint verb called with a token makes exactly one backend call,
\* of its own verb, whose headers are the caller's (an endpoint verb takes
\* none) and the entry authorization: Bearer <access_token> of the client's
\* token.
C3_EndpointCallsOnceWithBearer ==
    \A t \in Tasks :
        (task[t].verb \in EndpointVerbs /\ token # None /\ Issued(t))
            => /\ Len(calls[t]) = 1
               /\ calls[t][1].verb = ExpectedBackendVerb(task[t].verb)
               /\ Len(calls[t][1].headers) = 1
               /\ DOMAIN calls[t][1].headers[1] = {AuthorizationLit}
               /\ calls[t][1].headers[1][AuthorizationLit]
                    = <<"B", "e", "a", "r", "e", "r", " ">> \o token[1].access_token

\* endpoint_put has returned with a token set.
C3_Witness ==
    \E t \in Tasks :
        task[t].verb = "endpoint_put" /\ token # None /\ task[t].pc = "done"

\* C6: a basic verb makes exactly one call, to the backend verb of its name,
\* with the caller's headers (absent ones too) and payload as given and the
\* url resolved; it does not fail for want of a token, and a POST of the
\* empty JSON object reaches the backend as the empty object.
C6_BasicVerbDelegatesUnchanged ==
    \A t \in Tasks :
        (task[t].verb \in BasicVerbs /\ Issued(t))
            => /\ Len(calls[t]) = 1
               /\ calls[t][1].verb = ExpectedBackendVerb(task[t].verb)
               /\ calls[t][1].headers = task[t].headers
               /\ calls[t][1].payload = task[t].payload
               /\ calls[t][1].url \in {task[t].url, prefix \o task[t].url}
               /\ (task[t].verb = "post" /\ task[t].payload = "{}")
                     => calls[t][1].payload = "{}"
               /\ task[t].pc = "done"
                     => task[t].result # Some(Err("AuthenticationUnavailable"))

\* A basic POST of the empty object, to a relative route and with no
\* headers, has returned while no token is set.
C6_Witness ==
    \E t \in Tasks :
        /\ task[t].verb = "post" /\ task[t].payload = "{}"
        /\ task[t].headers = None /\ task[t].url = <<"m", "e">>
        /\ token = None /\ task[t].pc = "done"

\* C7: a verb returns what the backend returned, body or error, after one
\* backend call; the only result that is not the backend's is the
\* authentication-unavailable error of an endpoint verb without a token.
C7_OutcomePassedThrough ==
    \A t \in Tasks :
        /\ Len(calls[t]) <= 1
        /\ task[t].pc = "done"
              => IF calls[t] = <<>>
                 THEN /\ task[t].verb \in EndpointVerbs
                      /\ token = None
                      /\ task[t].result = Some(Err("AuthenticationUnavailable"))
                 ELSE /\ calls[t][1].response # None
                      /\ task[t].result = calls[t][1].response

\* An endpoint verb has returned the backend's error.
C7_Witness ==
    \E t \in Tasks :
        /\ task[t].verb \in EndpointVerbs /\ task[t].pc = "done"
        /\ calls[t] # <<>>
        /\ task[t].result = Some(Err("HttpStatus"))

C5_EndpointUrlResult ==
    Len(trail) >= 2
        => trail[2] = IF HasHttpPrefix(trail[1]) THEN trail[1] ELSE prefix \o trail[1]

\* endpoint_url has been applied to a relative url under a prefix that is
\* not empty.
C5_Witness ==
    /\ Len(trail) >= 2
    /\ ~HasHttpPrefix(trail[1])
    /\ trail[1] # <<>>
    /\ prefix # <<>>
    /\ Len(trail[2]) = Len(prefix) + Len(trail[1])

\* C8: bearer_auth returns the name "authorization" and the value "Bearer "
\* followed by the token's access_token, and leaves the token as it was.
C8_BearerAuth ==
    [][(bearerOut = None /\ bearerOut' # None)
          => /\ token' = token
             /\ bearerOut'
                  = Some(<<<<"a", "u", "t", "h", "o", "r", "i", "z", "a", "t", "i", "o", "n">>,
                           <<"B", "e", "a", "r", "e", "r", " ">> \o token[1].access_token>>)]_vars

\* bearer_auth has been called with a token that is not empty.
C8_Witness ==
    bearerOut # None /\ token[1].access_token = <<"x", " ">>

\* The 6-bit value of a base64 character, -1 for any other character.
B64Value(c) ==
    IF \E v \in 0..63 : B64Alphabet[v + 1] = c
    THEN CHOOSE v \in 0..63 : B64Alphabet[v + 1] = c
    ELSE -1

RECURSIVE Base64Decode(_)
\* The bytes a padded base64 text stands for; <<-1>> marks a text that is
\* not base64.
Base64Decode(cs) ==
    IF cs = <<>> THEN <<>>
    ELSE IF Len(cs) < 4 \/ B64Value(cs[1]) < 0 \/ B64Value(cs[2]) < 0 THEN <<-1>>
    ELSE IF Len(cs) = 4 /\ cs[3] = "=" /\ cs[4] = "=" THEN
        IF B64Value(cs[2]) % 16 = 0
        THEN <<B64Value(cs[1]) * 4 + B64Value(cs[2]) \div 16>>
        ELSE <<-1>>
    ELSE IF B64Value(cs[3]) < 0 THEN <<-1>>
    ELSE IF Len(cs) = 4 /\ cs[4] = "=" THEN
        IF B64Value(cs[3]) % 4 = 0
        THEN <<B64Value(cs[1]) * 4 + B64Value(cs[2]) \div 16,
               (B64Value(cs[2]) % 16) * 16 + B64Value(cs[3]) \div 4>>
        ELSE <<-1>>
    ELSE IF B64Value(cs[4]) < 0 THEN <<-1>>
    ELSE <<B64Value(cs[1]) * 4 + B64Value(cs[2]) \div 16,
           (B64Value(cs[2]) % 16) * 16 + B64Value(cs[3]) \div 4,
           (B64Value(cs[3]) % 4) * 64 + B64Value(cs[4])>>
         \o Base64Decode(SubSeq(cs, 5, Len(cs)))

\* C9: basic_auth returns the name "authorization" and a value that is
\* "Basic " followed by a base64 text, and decoding that text gives back
\* the user name, a colon and the password.
C9_BasicAuthRoundTrip ==
    basicOut # None
        => /\ basicOut[1][1] = <<"a", "u", "t", "h", "o", "r", "i", "z", "a", "t", "i", "o", "n">>
           /\ Len(basicOut[1][2]) >= 6
           /\ SubSeq(basicOut[1][2], 1, 6) = <<"B", "a", "s", "i", "c", " ">>
           /\ Base64Decode(SubSeq(basicOut[1][2], 7, Len(basicOut[1][2])))
                = as_bytes(creds.user \o <<":">> \o creds.password)

\* basic_auth has been called with a user name and a password that make a
\* text base64 has to pad.
C9_Witness ==
    /\ basicOut # None
    /\ creds.user = <<"a", "~">>
    /\ creds.password = <<":">>
    /\ basicOut[1][2][Len(basicOut[1][2])] = "="

\* What the request of caller t shows of itself depends on its own input and
\* the client's configuration alone.
AsIfAlone(t) ==
    /\ \A i \in 1..Len(calls[t]) :
          /\ calls[t][i].url
               = IF HasHttpPrefix(task[t].url) THEN task[t].url ELSE prefix \o task[t].url
          /\ calls[t][i].backend = http
          /\ task[t].verb \in EndpointVerbs
                => /\ token # None
                   /\ calls[t][i].headers[1][AuthorizationLit]
                        = <<"B", "e", "a", "r", "e", "r", " ">> \o token[1].access_token
    /\ task[t].pc = "done"
          => task[t].result
               = IF calls[t] = <<>>
                 THEN Some(Err("AuthenticationUnavailable"))
                 ELSE calls[t][Len(calls[t])].response

\* C10: whatever the interleaving of the callers' requests, no step writes
\* the prefix, the backend or the token, a step of one request changes
\* nothing of another request, and each request's url, authorization header
\* and outcome are those it has when run alone.
C10_RequestsIndependent ==
    [][/\ prefix' = prefix
       /\ http' = http
       /\ token' = token
       /\ \A t \in Tasks :
             (task'[t] # task[t] \/ calls'[t] # calls[t])
                => \A u \in Tasks \ {t} : task'[u] = task[u] /\ calls'[u] = calls[u]
       /\ \A t \in Tasks : AsIfAlone(t)']_vars

\* One request has failed and another, awaiting the backend when the first
\* failed, has succeeded.
C10_Witness ==
    \E t \in Tasks : \E u \in Tasks \ {t} :
        /\ task[t].pc = "done" /\ ~task[t].result[1].ok
        /\ task[u].pc = "done" /\ task[u].result[1].ok
        /\ task[t].verb \in EndpointVerbs /\ task[u].verb \in EndpointVerbs

====
